---------------------------- MODULE Spec2Model ----------------------------
(***************************************************************************)
(* A model of mvt/common/module.py: the MVTModule base class, the          *)
(* run_module runner and the timeline de-duplication.                      *)
(*                                                                         *)
(* Python values are modelled as records with three fields, so that every  *)
(* value is comparable with every other:                                   *)
(*   a dict  [kind |-> "dict", items |-> <<<<k1, v1>>, ...>>, text |-> <<>>]*)
(*           items in insertion order, keys distinct;                      *)
(*   a str   [kind |-> "str", items |-> <<>>, text |-> <<tok1, ...>>]      *)
(*           the text as a sequence of tokens.                             *)
(* Field values are atoms (TLA+ strings); None is the atom "None".         *)
(***************************************************************************)
EXTENDS Integers, Sequences, FiniteSets, TLC

\* ------------------------------------------------------------------ bounds

\* longest timeline handed to timeline_deduplicate
MaxLen == 3

\* ------------------------------------------------------- Python data model

NoneVal == "None"

Dict(items) == [kind |-> "dict", items |-> items, text |-> <<>>]

Str(text) == [kind |-> "str", items |-> <<>>, text |-> text]

Range(s) == {s[i] : i \in 1..Len(s)}

\* Python's == on the modelled values: dicts compare by their key/value
\* pairs whatever the insertion order, strings by their text.
PyEq(a, b) ==
    /\ a.kind = b.kind
    /\ IF a.kind = "dict" THEN Range(a.items) = Range(b.items)
                          ELSE a.text = b.text

\* The keys a timeline entry may hold, in ascending (sorted) order.
KeyOrder == <<"data", "event", "module", "timestamp">>

HasKey(items, k) == \E i \in 1..Len(items) : items[i][1] = k

ValueOf(items, k) == items[CHOOSE i \in 1..Len(items) : items[i][1] = k][2]

\* The mutation of json.dumps that leaves out sort_keys=True: the items stay
\* in insertion order.
SortedItemsAsInserted(items) == items

\* sort_keys=True: the items re-ordered by ascending key.
SortedItems(items) ==
    LET keys == SelectSeq(KeyOrder, LAMBDA k : HasKey(items, k))
    IN  [i \in 1..Len(keys) |-> <<keys[i], ValueOf(items, keys[i])>>]

\* JSON token of an atom: None is written null, a string as itself.
ValTok(v) == IF v = NoneVal THEN "null" ELSE v

TokVal(t) == IF t = "null" THEN NoneVal ELSE t

\* The tokens key1, value1, key2, value2, ... of a sequence of items.
ItemTokens(items) ==
    [i \in 1..(2 * Len(items)) |->
        IF i % 2 = 1 THEN items[(i + 1) \div 2][1]
                     ELSE ValTok(items[i \div 2][2])]

\* json.dumps(v, sort_keys=True): a dict becomes { k1 v1 k2 v2 ... } with
\* the keys sorted, a str becomes the quoted string literal.
DumpsSorted(v) ==
    IF v.kind = "dict"
    THEN Str(<<"{">> \o ItemTokens(SortedItems(v.items)) \o <<"}">>)
    ELSE Str(<<"\"">> \o v.text \o <<"\"">>)

\* json.loads(s): parses an object back into a dict (in the order of the
\* text), a string literal back into the str.
Loads(s) ==
    LET inner == SubSeq(s.text, 2, Len(s.text) - 1)
    IN  IF s.text[1] = "{"
        THEN Dict([i \in 1..(Len(inner) \div 2) |->
                      <<inner[2 * i - 1], TokVal(inner[2 * i])>>])
        ELSE Str(inner)

\* Every sequence that lists each element of the set S exactly once.
Orderings(S) ==
    {o \in [1..Cardinality(S) -> S] : \A i, j \in 1..Cardinality(S) :
                                          o[i] = o[j] => i = j}

\* The mutation of timeline_deduplicate that returns the serialized strings
\* of the set without parsing them back.
timeline_deduplicate_noloads(timeline) ==
    Orderings({DumpsSorted(timeline[i]) : i \in 1..Len(timeline)})

\* The mutation of timeline_deduplicate that returns the timeline as it is.
timeline_deduplicate_keepall(timeline) == {timeline}

\* MVTModule.timeline_deduplicate: the records are added, serialized with
\* sorted keys, to a set, and the set is iterated to build the result. The
\* iteration order of a set of strings depends on the per-process string
\* hashes and on the insertion order under collisions, so the operator
\* yields the set of lists the call can return: one per order of the set.
timeline_deduplicate(timeline) ==
    LET timeline_set == {DumpsSorted(timeline[i]) : i \in 1..Len(timeline)}
    IN  {[i \in 1..Len(o) |-> Loads(o[i])] : o \in Orderings(timeline_set)}

\* --------------------------------------------------- timeline entry inputs

EntryA == Dict(<<<<"timestamp", "2023-01-01">>, <<"event", "e">>>>)

\* EntryA with its fields inserted in the other order
EntryA2 == Dict(<<<<"event", "e">>, <<"timestamp", "2023-01-01">>>>)

EntryB == Dict(<<<<"timestamp", "2023-01-02">>, <<"event", "e">>>>)

EntryN == Dict(<<<<"timestamp", NoneVal>>, <<"event", "e">>>>)

TimelineEntries == {EntryA, EntryA2, EntryB, EntryN}

SeqsUpTo(S, n) == UNION {[1..k -> S] : k \in 0..n}

\* ------------------------------------------------------------ the modules

\* how many module instances the batch constructs and runs
NumModules == 2

\* how many entries one call of run() adds to results at most
MaxRun == 1

Modules == 1..NumModules

\* The result entries a module's run() can extract.
ResultEntries == {EntryA, EntryN}

\* What run() can signal: "ok" is a normal return, "Exception" any failure
\* other than the four the runner names.
RunSignals == {"ok", "NotImplementedError", "InsufficientPrivileges",
               "DatabaseNotFoundError", "DatabaseCorruptedError", "Exception"}

\* What check_indicators() and to_timeline() can signal.
StageSignals == {"ok", "NotImplementedError", "Exception"}

\* The serialize() a module type can have: the base class's, which raises
\* NotImplementedError; one timeline entry per result; a list of two equal
\* entries per result; nothing for a result without timestamp and one entry
\* otherwise; a failure on a result without timestamp.
SerializeKinds == {"base", "one", "list", "skip", "fail"}

NoFile == [state |-> "absent", data |-> <<>>]

VARIABLES
    dIn,      \* the timeline handed to timeline_deduplicate
    dOnce,    \* timeline_deduplicate(dIn)
    dTwice,   \* timeline_deduplicate(dOnce)
    dStep,    \* how many times timeline_deduplicate has been applied
    pc,                 \* per module: where its construction and run stand
    defaultResults,     \* the list object of the default argument results=[]
    ownResults,         \* per module: the list object passed as results
    resultsRef,         \* per module: the list self.results is bound to
    detected,           \* per module: self.detected
    timeline,           \* per module: self.timeline
    timeline_detected,  \* per module: self.timeline_detected
    indicators,         \* per module: whether self.indicators is set
    output_folder,      \* per module: whether self.output_folder is set
    log,                \* per module: the records written to module.log
    calls,              \* per module: the module operations run_module invoked
    signals,            \* per module: what each invoked operation signalled
    io,                 \* per module: the files save_to_json tried to open
    files,              \* per module: its files in the output folder
    ret,                \* per module: what run_module handed to its caller
    st,       \* save_timeline: the target file and the last call on it
    rl,       \* save_to_json then from_json: the results, the file, the reload
    sg,       \* get_slug: the type name, the override and the slug returned
    tt        \* to_timeline called again and again on one module

dedupeVars == <<dIn, dOnce, dTwice, dStep>>

moduleVars == <<pc, defaultResults, ownResults, resultsRef, detected, timeline,
                timeline_detected, indicators, output_folder, log, calls,
                signals, io, files, ret>>

toolVars == <<st, rl, sg, tt>>

vars == <<dIn, dOnce, dTwice, dStep, pc, defaultResults, ownResults,
          resultsRef, detected, timeline, timeline_detected, indicators,
          output_folder, log, calls, signals, io, files, ret, st, rl, sg, tt>>

\* No module constructed yet; the default argument's list is empty.
ModulesIdle ==
    /\ pc = [m \in Modules |-> "none"]
    /\ defaultResults = <<>>
    /\ ownResults = [m \in Modules |-> <<>>]
    /\ resultsRef = [m \in Modules |-> "default"]
    /\ detected = [m \in Modules |-> <<>>]
    /\ timeline = [m \in Modules |-> <<>>]
    /\ timeline_detected = [m \in Modules |-> <<>>]
    /\ indicators = [m \in Modules |-> FALSE]
    /\ output_folder = [m \in Modules |-> FALSE]
    /\ log = [m \in Modules |-> <<>>]
    /\ calls = [m \in Modules |-> <<>>]
    /\ signals = [m \in Modules |-> <<>>]
    /\ io = [m \in Modules |-> <<>>]
    /\ files = [m \in Modules |-> [results |-> NoFile, detected |-> NoFile]]
    /\ ret = [m \in Modules |-> "-"]

DedupeIdle ==
    /\ dIn = <<>>
    /\ dOnce = <<>>
    /\ dTwice = <<>>
    /\ dStep = 0

\* save_timeline, from_json, get_slug and a repeated to_timeline not called.
SaveTimelineIdle ==
    st = [file |-> <<>>, calls |-> 0, last |-> <<>>, wrote |-> <<>>, raises |-> "-"]

ReloadIdle ==
    rl = [step |-> "idle", results |-> <<>>, file |-> NoFile, out |-> <<>>,
          raises |-> "-"]

SlugIdle == sg = [step |-> "idle", name |-> <<>>, slug |-> NoneVal, out |-> <<>>]

NoTimelines == [timeline |-> <<>>, timeline_detected |-> <<>>]

RepeatIdle ==
    tt = [calls |-> 0, kind |-> "base", results |-> <<>>, detected |-> <<>>,
          timeline |-> <<>>, timeline_detected |-> <<>>, raises |-> "-",
          first |-> NoTimelines, before |-> NoTimelines]

ToolsIdle == SaveTimelineIdle /\ ReloadIdle /\ SlugIdle /\ RepeatIdle

\* ------------------------------------------ timeline_deduplicate, applied

InitDedupe ==
    /\ dIn \in SeqsUpTo(TimelineEntries, MaxLen)
    /\ dOnce = <<>>
    /\ dTwice = <<>>
    /\ dStep = 0
    /\ ModulesIdle
    /\ ToolsIdle

DedupeOnce ==
    /\ dStep = 0
    /\ dOnce' \in timeline_deduplicate(dIn)
    /\ dStep' = 1
    /\ UNCHANGED <<dIn, dTwice>>
    /\ UNCHANGED moduleVars
    /\ UNCHANGED toolVars

DedupeTwice ==
    /\ dStep = 1
    /\ dTwice' \in timeline_deduplicate(dOnce)
    /\ dStep' = 2
    /\ UNCHANGED <<dIn, dOnce>>
    /\ UNCHANGED moduleVars
    /\ UNCHANGED toolVars

NextDedupe == DedupeOnce \/ DedupeTwice

SpecDedupe == InitDedupe /\ [][NextDedupe]_vars

\* ------------------------------------------------------- MVTModule, run_module

\* self.results of module m: the list object the field is bound to.
Results(m) == IF resultsRef[m] = "default" THEN defaultResults ELSE ownResults[m]

\* The batch caller calls run_module on the modules one after another: it
\* constructs and runs module m once run_module has returned for every module
\* before it. An exception that escapes run_module ends the batch.
CallerReached(m) == \A k \in Modules : k < m => pc[k] \in {"stopped", "finished"}

\* self.results = results: the field is bound to the list object passed, or,
\* with no results argument, to the one list object of the default argument.
InitResults(m, given, list) ==
    /\ resultsRef' = [resultsRef EXCEPT ![m] = IF given THEN "own" ELSE "default"]
    /\ ownResults' = [ownResults EXCEPT ![m] = IF given THEN list ELSE <<>>]

\* MVTModule.__init__, called with or without a results argument (from_json
\* passes the list it loaded) and with or without an output folder.
Construct(m) ==
    /\ pc[m] = "none"
    /\ CallerReached(m)
    /\ \E given \in BOOLEAN, list \in SeqsUpTo(ResultEntries, MaxRun) :
          /\ (~ given) => list = <<>>
          /\ InitResults(m, given, list)
    /\ \E folder \in BOOLEAN : output_folder' = [output_folder EXCEPT ![m] = folder]
    /\ indicators' = [indicators EXCEPT ![m] = FALSE]
    /\ detected' = [detected EXCEPT ![m] = <<>>]
    /\ timeline' = [timeline EXCEPT ![m] = <<>>]
    /\ timeline_detected' = [timeline_detected EXCEPT ![m] = <<>>]
    /\ pc' = [pc EXCEPT ![m] = "created"]
    /\ UNCHANGED <<defaultResults, log, calls, signals, io, files, ret>>
    /\ UNCHANGED dedupeVars
    /\ UNCHANGED toolVars

\* The mutation of load_indicators that also flags every result.
LoadIndicatorsDetects(m) ==
    /\ pc[m] = "created"
    /\ ~ indicators[m]
    /\ indicators' = [indicators EXCEPT ![m] = TRUE]
    /\ detected' = [detected EXCEPT ![m] = Results(m)]
    /\ UNCHANGED <<pc, defaultResults, ownResults, resultsRef, timeline,
                   timeline_detected, output_folder, log, calls, signals, io,
                   files, ret>>
    /\ UNCHANGED dedupeVars
    /\ UNCHANGED toolVars

\* MVTModule.load_indicators: binds the indicators. (A failure of the
\* Indicators constructor leaves the module as it was.)
LoadIndicators(m) ==
    /\ pc[m] = "created"
    /\ ~ indicators[m]
    /\ indicators' = [indicators EXCEPT ![m] = TRUE]
    /\ UNCHANGED <<pc, defaultResults, ownResults, resultsRef, detected, timeline,
                   timeline_detected, output_folder, log, calls, signals, io,
                   files, ret>>
    /\ UNCHANGED dedupeVars
    /\ UNCHANGED toolVars

\* What run_module logs when run() signals sig.
ExtractLog(sig) ==
    CASE sig = "NotImplementedError"    -> <<<<"exception", "run not implemented">>>>
      [] sig = "InsufficientPrivileges" -> <<<<"info", "insufficient privileges">>>>
      [] sig = "DatabaseNotFoundError"  -> <<<<"info", "no data to extract">>>>
      [] sig = "DatabaseCorruptedError" -> <<<<"error", "database corrupted">>>>
      [] sig = "Exception"              -> <<<<"exception", "error in extraction">>>>
      [] OTHER                          -> <<>>

\* The mutation of run_module that has the stages after run() follow the
\* try statement instead of standing in its else branch.
AfterRunDedented(sig) == "detect"

\* The mutation of the try statement's except clauses that lets a
\* DatabaseNotFoundError fall through to the else branch.
AfterRunNotFoundContinues(sig) ==
    IF sig \in {"ok", "DatabaseNotFoundError"} THEN "detect" ELSE "stopped"

\* Where run_module goes after run(): the else branch of the try statement
\* is taken only when run() raised nothing; every except clause ends the
\* function.
AfterRun(sig) == IF sig = "ok" THEN "detect" ELSE "stopped"

\* run_module, lines 140-157: the module's run() is invoked; it adds what it
\* extracted to self.results and returns or raises.
Extract(m) ==
    /\ pc[m] = "created"
    /\ CallerReached(m)
    /\ \E sig \in RunSignals, new \in SeqsUpTo(ResultEntries, MaxRun) :
          /\ IF resultsRef[m] = "default"
             THEN /\ defaultResults' = defaultResults \o new
                  /\ UNCHANGED ownResults
             ELSE /\ ownResults' = [ownResults EXCEPT ![m] = @ \o new]
                  /\ UNCHANGED defaultResults
          /\ signals' = [signals EXCEPT ![m] = Append(@, sig)]
          /\ log' = [log EXCEPT ![m] = (@ \o <<<<"info", "running module">>>>)
                                          \o ExtractLog(sig)]
          /\ pc' = [pc EXCEPT ![m] = AfterRun(sig)]
          /\ ret' = [ret EXCEPT ![m] = IF AfterRun(sig) = "stopped" THEN "None" ELSE @]
    /\ calls' = [calls EXCEPT ![m] = Append(@, "run")]
    /\ UNCHANGED <<resultsRef, detected, timeline, timeline_detected, indicators,
                   output_folder, io, files>>
    /\ UNCHANGED dedupeVars
    /\ UNCHANGED toolVars

\* The sub-lists of s: for every set of positions, the entries at them in order.
SubLists(s) ==
    {LET idx == SelectSeq([i \in 1..Len(s) |-> i], LAMBDA i : i \in I)
     IN  [k \in 1..Len(idx) |-> s[idx[k]]] : I \in SUBSET (1..Len(s))}

\* The mutation of the detection branch that logs the notice whenever
\* nothing was detected, bound indicators or not.
NoDetectionsNoticeUnbound(bound, det) == det = <<>>

\* run_module, line 166: the condition of the 'no detections' notice.
NoDetectionsNotice(bound, det) == bound /\ det = <<>>

\* What run_module logs after check_indicators() signalled sig.
DetectLog(sig, bound, det) ==
    CASE sig = "NotImplementedError" -> <<<<"info", "no indicator support">>>>
      [] sig = "ok" /\ NoDetectionsNotice(bound, det)
                                     -> <<<<"info", "no detections">>>>
      [] OTHER                       -> <<>>

\* Where run_module goes after check_indicators(): only NotImplementedError
\* is caught.
AfterDetect(sig) == IF sig = "Exception" THEN "raised" ELSE "timeline"

\* run_module, lines 159-168: check_indicators() is invoked; the module's
\* detection logic appends the entries of results it flags to self.detected.
\* Only NotImplementedError is caught here: any other exception leaves
\* run_module.
Detect(m) ==
    /\ pc[m] = "detect"
    /\ \E sig \in StageSignals, matches \in SubLists(Results(m)) :
          /\ sig = "NotImplementedError" => matches = <<>>
          /\ detected' = [detected EXCEPT ![m] = @ \o matches]
          /\ signals' = [signals EXCEPT ![m] = Append(@, sig)]
          /\ log' = [log EXCEPT ![m] = @ \o DetectLog(sig, indicators[m], detected'[m])]
          /\ pc' = [pc EXCEPT ![m] = AfterDetect(sig)]
          /\ ret' = [ret EXCEPT ![m] = IF AfterDetect(sig) = "raised" THEN "raised" ELSE @]
    /\ calls' = [calls EXCEPT ![m] = Append(@, "check_indicators")]
    /\ UNCHANGED <<defaultResults, ownResults, resultsRef, timeline,
                   timeline_detected, indicators, output_folder, io, files>>
    /\ UNCHANGED dedupeVars
    /\ UNCHANGED toolVars

\* The timeline entry a module's serialize() makes of a result entry.
TimelineEntryOf(e) ==
    Dict(<<<<"timestamp", ValueOf(e.items, "timestamp")>>, <<"module", "M">>>>)

\* serialize(entry) of a module type of the given kind: what it raises
\* ("ok": nothing) and the records it returns, as the list that to_timeline
\* adds to the timeline (none for a falsy return value).
Serialize(kind, e) ==
    LET noTimestamp == ValueOf(e.items, "timestamp") = NoneVal
    IN  CASE kind = "base" -> [raises |-> "NotImplementedError", records |-> <<>>]
          [] kind = "one"  -> [raises |-> "ok", records |-> <<TimelineEntryOf(e)>>]
          [] kind = "list" -> [raises |-> "ok",
                               records |-> <<TimelineEntryOf(e), TimelineEntryOf(e)>>]
          [] kind = "skip" -> [raises |-> "ok",
                               records |-> IF noTimestamp THEN <<>>
                                           ELSE <<TimelineEntryOf(e)>>]
          [] kind = "fail" -> IF noTimestamp
                              THEN [raises |-> "Exception", records |-> <<>>]
                              ELSE [raises |-> "ok", records |-> <<TimelineEntryOf(e)>>]

\* One loop of to_timeline: every entry is serialized in turn and what it
\* yields is appended to (or extends) the timeline acc; the loop ends at the
\* first entry whose serialize() raises.
RECURSIVE Collect(_, _, _)
Collect(kind, entries, acc) ==
    IF entries = <<>>
    THEN [raises |-> "ok", timeline |-> acc]
    ELSE LET r == Serialize(kind, Head(entries))
         IN  IF r.raises # "ok"
             THEN [raises |-> r.raises, timeline |-> acc]
             ELSE Collect(kind, Tail(entries), acc \o r.records)

\* The mutation of to_timeline whose second loop runs over results instead
\* of detected.
to_timeline_unseparated(kind, results, det, tl, tld) ==
    LET general == Collect(kind, results, tl)
        flagged == Collect(kind, results, tld)
    IN  IF general.raises # "ok"
        THEN {[raises |-> general.raises, timeline |-> general.timeline,
               timeline_detected |-> tld]}
        ELSE {[raises |-> "ok", timeline |-> a, timeline_detected |-> b] :
                 a \in timeline_deduplicate(general.timeline),
                 b \in timeline_deduplicate(flagged.timeline)}

\* MVTModule.to_timeline: the outcomes of one call, each the signal raised
\* and the two timelines it leaves. Both timelines are de-duplicated only
\* when no serialize() raised.
to_timeline(kind, results, det, tl, tld) ==
    LET general == Collect(kind, results, tl)
        flagged == Collect(kind, det, tld)
    IN  IF general.raises # "ok"
        THEN {[raises |-> general.raises, timeline |-> general.timeline,
               timeline_detected |-> tld]}
        ELSE IF flagged.raises # "ok"
        THEN {[raises |-> flagged.raises, timeline |-> general.timeline,
               timeline_detected |-> flagged.timeline]}
        ELSE {[raises |-> "ok", timeline |-> a, timeline_detected |-> b] :
                 a \in timeline_deduplicate(general.timeline),
                 b \in timeline_deduplicate(flagged.timeline)}

\* The mutation of the second try statement that catches nothing.
AfterTimelineUncaught(sig) == IF sig = "ok" THEN "persist" ELSE "raised"

\* The mutation of run_module that goes back to the detection stage after
\* to_timeline().
AfterTimelineBackToDetect(sig) == IF sig = "Exception" THEN "raised" ELSE "detect"

\* Where run_module goes after to_timeline(): NotImplementedError is passed
\* over.
AfterTimeline(sig) == IF sig = "Exception" THEN "raised" ELSE "persist"

\* run_module, lines 170-173: to_timeline() is invoked; NotImplementedError is
\* passed over, any other exception leaves run_module.
Timeline(m) ==
    /\ pc[m] = "timeline"
    /\ \E kind \in SerializeKinds :
       \E out \in to_timeline(kind, Results(m), detected[m], timeline[m],
                              timeline_detected[m]) :
          /\ timeline' = [timeline EXCEPT ![m] = out.timeline]
          /\ timeline_detected' = [timeline_detected EXCEPT ![m] = out.timeline_detected]
          /\ signals' = [signals EXCEPT ![m] = Append(@, out.raises)]
          /\ pc' = [pc EXCEPT ![m] = AfterTimeline(out.raises)]
          /\ ret' = [ret EXCEPT ![m] = IF AfterTimeline(out.raises) = "raised"
                                      THEN "raised" ELSE @]
    /\ calls' = [calls EXCEPT ![m] = Append(@, "to_timeline")]
    /\ UNCHANGED <<defaultResults, ownResults, resultsRef, detected, indicators,
                   output_folder, log, io, files>>
    /\ UNCHANGED dedupeVars
    /\ UNCHANGED toolVars

\* A field value json cannot encode: a datetime object.
DatetimeVal == "datetime(2023, 1, 1, 0, 0)"

\* str(v) of a value json cannot encode.
StrOf(v) == IF v = DatetimeVal THEN "2023-01-01 00:00:00" ELSE v

\* The JSON token of a field value under default=str: a value json cannot
\* encode is written as the string str() makes of it.
DefaultStrTok(v) == IF v = DatetimeVal THEN StrOf(v) ELSE ValTok(v)

\* The tokens of one dict, its items in insertion order.
ObjectTokens(d) ==
    <<"{">> \o [i \in 1..(2 * Len(d.items)) |->
                  IF i % 2 = 1 THEN d.items[(i + 1) \div 2][1]
                               ELSE DefaultStrTok(d.items[i \div 2][2])]
            \o <<"}">>

RECURSIVE ListTokens(_)
ListTokens(list) ==
    IF list = <<>> THEN <<>>
    ELSE ObjectTokens(Head(list)) \o ListTokens(Tail(list))

\* json.dump(list, handle, indent=4, default=str): the text written for a
\* list of dicts.
JsonDump(list) == <<"[">> \o ListTokens(list) \o <<"]">>

\* The dicts of a sequence of object texts, each read up to its closing brace.
RECURSIVE ParseObjects(_)
ParseObjects(toks) ==
    IF toks = <<>> THEN <<>>
    ELSE LET close == CHOOSE j \in 1..Len(toks) :
                         toks[j] = "}" /\ \A k \in 1..(j - 1) : toks[k] # "}"
         IN  <<Loads(Str(SubSeq(toks, 1, close)))>>
                 \o ParseObjects(SubSeq(toks, close + 1, Len(toks)))

\* json.load(handle): the list of dicts of the text.
JsonLoad(text) == ParseObjects(SubSeq(text, 2, Len(text) - 1))

\* A file opened for writing whose json.dump completed, or failed part-way.
Written(data) == [state |-> "complete", data |-> data]

Truncated == [state |-> "partial", data |-> <<>>]

\* save_to_json, lines 84-92: the outcomes of the results part. Opening the
\* file is outside the try statement, so a failure to open it leaves
\* save_to_json; a failure of json.dump is caught and logged.
SaveResults(results, f) ==
    IF results = <<>>
    THEN {[raises |-> "ok", files |-> f, io |-> <<>>, log |-> <<>>]}
    ELSE {[raises |-> "Exception", files |-> f, io |-> <<"results">>, log |-> <<>>],
          [raises |-> "ok", files |-> [f EXCEPT !.results = Written(JsonDump(results))],
           io |-> <<"results">>, log |-> <<>>],
          [raises |-> "ok", files |-> [f EXCEPT !.results = Truncated],
           io |-> <<"results">>, log |-> <<<<"error", "unable to store results">>>>]}

\* save_to_json, lines 94-98: the outcomes of the detected part after the
\* results part ended as r. Nothing is caught here.
SaveDetected(det, r) ==
    IF det = <<>>
    THEN {r}
    ELSE {[r EXCEPT !.raises = "Exception", !.io = @ \o <<"detected">>],
          [r EXCEPT !.files.detected = Written(JsonDump(det)), !.io = @ \o <<"detected">>],
          [r EXCEPT !.raises = "Exception", !.files.detected = Truncated,
                    !.io = @ \o <<"detected">>]}

\* MVTModule.save_to_json: the outcomes of one call on the files f of the
\* module: the exception that leaves it ("ok": none), the files after it, the
\* files it tried to open and what it logged.
save_to_json(folder, results, det, f) ==
    IF ~ folder
    THEN {[raises |-> "ok", files |-> f, io |-> <<>>, log |-> <<>>]}
    ELSE UNION {IF r.raises = "ok" THEN SaveDetected(det, r) ELSE {r} :
                   r \in SaveResults(results, f)}

\* run_module, line 175: save_to_json() is invoked, outside any try
\* statement, and run_module returns.
Persist(m) ==
    /\ pc[m] = "persist"
    /\ \E out \in save_to_json(output_folder[m], Results(m), detected[m], files[m]) :
          /\ files' = [files EXCEPT ![m] = out.files]
          /\ io' = [io EXCEPT ![m] = @ \o out.io]
          /\ log' = [log EXCEPT ![m] = @ \o out.log]
          /\ signals' = [signals EXCEPT ![m] = Append(@, out.raises)]
          /\ pc' = [pc EXCEPT ![m] = IF out.raises = "ok" THEN "finished" ELSE "raised"]
          /\ ret' = [ret EXCEPT ![m] = IF out.raises = "ok" THEN "None" ELSE "raised"]
    /\ calls' = [calls EXCEPT ![m] = Append(@, "save_to_json")]
    /\ UNCHANGED <<defaultResults, ownResults, resultsRef, detected, timeline,
                   timeline_detected, indicators, output_folder>>
    /\ UNCHANGED dedupeVars
    /\ UNCHANGED toolVars

Init == ModulesIdle /\ DedupeIdle /\ ToolsIdle

\* One module instance is constructed and handed to run_module.
Next ==
    \/ Construct(1)
    \/ LoadIndicators(1)
    \/ Extract(1)
    \/ Detect(1)
    \/ Timeline(1)
    \/ Persist(1)

Spec == Init /\ [][Next]_vars

\* A batch: every module is constructed and handed to run_module in turn.
NextBatch ==
    \E m \in Modules :
        \/ Construct(m)
        \/ LoadIndicators(m)
        \/ Extract(m)
        \/ Detect(m)
        \/ Timeline(m)
        \/ Persist(m)

SpecBatch == Init /\ [][NextBatch]_vars

\* ------------------------------------------------- save_to_json, from_json

\* longest results list that is stored and loaded again
MaxReload == 2

\* an entry whose timestamp is a datetime object
EntryD == Dict(<<<<"timestamp", DatetimeVal>>, <<"event", "e">>>>)

ReloadEntries == {EntryA, EntryA2, EntryN, EntryD}

\* The mutation of from_json that constructs the module without the results.
from_json_noresults(file) ==
    IF file.state = "absent" THEN [raises |-> "FileNotFoundError", results |-> <<>>]
    ELSE IF file.state = "partial" THEN [raises |-> "JSONDecodeError", results |-> <<>>]
    ELSE [raises |-> "ok", results |-> <<>>]

\* MVTModule.from_json: the file is opened and json.load reads the results the
\* new instance is constructed with; a missing file or a text that was not
\* written to its end raises.
from_json(file) ==
    IF file.state = "absent" THEN [raises |-> "FileNotFoundError", results |-> <<>>]
    ELSE IF file.state = "partial" THEN [raises |-> "JSONDecodeError", results |-> <<>>]
    ELSE [raises |-> "ok", results |-> JsonLoad(file.data)]

InitReload ==
    /\ ModulesIdle /\ DedupeIdle /\ SaveTimelineIdle /\ SlugIdle /\ RepeatIdle
    /\ \E list \in SeqsUpTo(ReloadEntries, MaxReload) :
          rl = [step |-> "made", results |-> list, file |-> NoFile, out |-> <<>>,
                raises |-> "-"]

\* save_to_json of a module that holds the results and an output folder.
ReloadSave ==
    /\ rl.step = "made"
    /\ \E out \in save_to_json(TRUE, rl.results, <<>>,
                               [results |-> NoFile, detected |-> NoFile]) :
          rl' = [rl EXCEPT !.step = "saved", !.file = out.files.results,
                           !.raises = out.raises]
    /\ UNCHANGED <<st, sg, tt>>
    /\ UNCHANGED dedupeVars
    /\ UNCHANGED moduleVars

\* from_json on the path of the results file.
ReloadLoad ==
    /\ rl.step = "saved"
    /\ rl' = [rl EXCEPT !.step = "loaded", !.out = from_json(rl.file).results,
                        !.raises = from_json(rl.file).raises]
    /\ UNCHANGED <<st, sg, tt>>
    /\ UNCHANGED dedupeVars
    /\ UNCHANGED moduleVars

NextReload == ReloadSave \/ ReloadLoad

SpecReload == InitReload /\ [][NextReload]_vars

\* ---------------------------------------------------------------- get_slug

\* longest generated type name
MaxName == 4

\* Characters are one-letter strings; a name or a slug is a sequence of them.
UpperChars == {"A", "B", "C", "L", "M", "T", "V"}
LowerChars == {"a", "b", "c", "d", "e", "i", "l", "m", "n", "o", "s", "t", "u", "v"}
DigitChars == {"1"}

\* str.lower() of one character.
ToLower(c) ==
    CASE c = "A" -> "a" [] c = "B" -> "b" [] c = "C" -> "c" [] c = "L" -> "l"
      [] c = "M" -> "m" [] c = "T" -> "t" [] c = "V" -> "v" [] OTHER -> c

Lowered(name) == [i \in 1..Len(name) |-> ToLower(name[i])]

\* The end of the run of lowercase characters that starts at position i.
RECURSIVE LowerRunEnd(_, _)
LowerRunEnd(name, i) ==
    IF i < Len(name) /\ name[i + 1] \in LowerChars
    THEN LowerRunEnd(name, i + 1)
    ELSE i

\* re.sub("(.)([A-Z][a-z]+)", r"\1_\2", name) from position i on: matches are
\* found left to right and do not overlap.
RECURSIVE SubCapitalized(_, _)
SubCapitalized(name, i) ==
    IF i > Len(name) THEN <<>>
    ELSE IF /\ i + 2 <= Len(name)
            /\ name[i + 1] \in UpperChars
            /\ name[i + 2] \in LowerChars
         THEN <<name[i], "_">>
                  \o SubSeq(name, i + 1, LowerRunEnd(name, i + 2))
                  \o SubCapitalized(name, LowerRunEnd(name, i + 2) + 1)
         ELSE <<name[i]>> \o SubCapitalized(name, i + 1)

\* The mutation of the second substitution that replaces nothing.
SubLowerUpperNone(name, i) == SubSeq(name, i, Len(name))

\* re.sub("([a-z0-9])([A-Z])", r"\1_\2", sub) from position i on.
RECURSIVE SubLowerUpper(_, _)
SubLowerUpper(name, i) ==
    IF i > Len(name) THEN <<>>
    ELSE IF /\ i + 1 <= Len(name)
            /\ name[i] \in LowerChars \cup DigitChars
            /\ name[i + 1] \in UpperChars
         THEN <<name[i], "_", name[i + 1]>> \o SubLowerUpper(name, i + 2)
         ELSE <<name[i]>> \o SubLowerUpper(name, i + 1)

\* bool(self.slug)
SlugSet(slug) == slug # NoneVal /\ slug # <<>>

\* MVTModule.get_slug: the slug attribute when it is set, else the class name
\* after both substitutions, lowercased.
get_slug(slug, name) ==
    IF SlugSet(slug) THEN slug
    ELSE Lowered(SubLowerUpper(SubCapitalized(name, 1), 1))

NameChars == {"A", "B", "a", "1"}
ContactList == <<"C", "o", "n", "t", "a", "c", "t", "L", "i", "s", "t">>
contact_list == <<"c", "o", "n", "t", "a", "c", "t", "_", "l", "i", "s", "t">>
MVTModuleName == <<"M", "V", "T", "M", "o", "d", "u", "l", "e">>
ClassNames ==
    (SeqsUpTo(NameChars, MaxName) \ {<<>>}) \cup {ContactList, MVTModuleName}
SlugValues == {NoneVal, <<>>, <<"c", "u", "s", "t", "o", "m">>}

InitSlug ==
    /\ ModulesIdle /\ DedupeIdle /\ SaveTimelineIdle /\ ReloadIdle /\ RepeatIdle
    /\ \E name \in ClassNames, slug \in SlugValues :
          sg = [step |-> "made", name |-> name, slug |-> slug, out |-> <<>>]

GetSlug ==
    /\ sg.step = "made"
    /\ sg' = [sg EXCEPT !.step = "called", !.out = get_slug(sg.slug, sg.name)]
    /\ UNCHANGED <<st, rl, tt>>
    /\ UNCHANGED dedupeVars
    /\ UNCHANGED moduleVars

NextSlug == GetSlug

SpecSlug == InitSlug /\ [][NextSlug]_vars

\* ------------------------------------------------------ repeated to_timeline

\* longest results list of the module whose to_timeline is repeated
MaxResults == 2

\* most calls of to_timeline on one module
MaxTimelineCalls == 3

\* A module that holds results and the entries of them its check_indicators
\* flagged, with empty timelines, and whose serialize() is of one kind.
InitRepeat ==
    /\ ModulesIdle /\ DedupeIdle /\ SaveTimelineIdle /\ ReloadIdle /\ SlugIdle
    /\ \E kind \in SerializeKinds, results \in SeqsUpTo(ResultEntries, MaxResults) :
       \E det \in SubLists(results) :
          tt = [calls |-> 0, kind |-> kind, results |-> results, detected |-> det,
                timeline |-> <<>>, timeline_detected |-> <<>>, raises |-> "-",
                first |-> NoTimelines, before |-> NoTimelines]

\* One more call of to_timeline() on the module; results and detected stay
\* as they are.
ToTimeline ==
    /\ tt.calls < MaxTimelineCalls
    /\ \E out \in to_timeline(tt.kind, tt.results, tt.detected, tt.timeline,
                              tt.timeline_detected) :
          LET after == [timeline |-> out.timeline,
                        timeline_detected |-> out.timeline_detected]
          IN  tt' = [tt EXCEPT !.calls = @ + 1,
                               !.timeline = out.timeline,
                               !.timeline_detected = out.timeline_detected,
                               !.raises = out.raises,
                               !.before = [timeline |-> tt.timeline,
                                           timeline_detected |-> tt.timeline_detected],
                               !.first = IF tt.calls = 0 THEN after ELSE @]
    /\ UNCHANGED <<st, rl, sg>>
    /\ UNCHANGED dedupeVars
    /\ UNCHANGED moduleVars

NextRepeat == ToTimeline

SpecRepeat == InitRepeat /\ [][NextRepeat]_vars

\* ----------------------------------------------------------- save_timeline

\* longest timeline handed to a single save_timeline call
MaxRows == 3

\* how many times save_timeline is called on the same target
MaxSaves == 3

\* longest timeline handed to each of the repeated save_timeline calls
MaxAppendRows == 1

\* an entry with the timestamp of EntryA and another event
EntryC == Dict(<<<<"timestamp", "2023-01-01">>, <<"event", "f">>>>)

\* an entry that holds no timestamp field at all
EntryX == Dict(<<<<"event", "e">>>>)

SaveEntries == {EntryA, EntryB, EntryC, EntryN, EntryX}

AppendEntries == {EntryA, EntryN, EntryX}

\* The sort keys in ascending order of Python's string comparison.
TimestampOrder == <<"", "2023-01-01", "2023-01-02">>

Rank(key) == CHOOSE i \in 1..Len(TimestampOrder) : TimestampOrder[i] = key

\* The sort key of line 186: x["timestamp"], or "" when it is None.
SortKey(e) ==
    IF ValueOf(e.items, "timestamp") = NoneVal THEN ""
    ELSE ValueOf(e.items, "timestamp")

\* The mutation of save_timeline that writes the events as they come.
SortedByTimestampUnsorted(tl) == tl

\* sorted(timeline, key=...): a stable sort, so every event goes behind the
\* events before it whose key is not greater.
RECURSIVE SortedByTimestamp(_)
SortedByTimestamp(tl) ==
    IF tl = <<>> THEN <<>>
    ELSE LET e == tl[Len(tl)]
             front == SortedByTimestamp(SubSeq(tl, 1, Len(tl) - 1))
             p == Cardinality({i \in 1..Len(front) :
                                  Rank(SortKey(front[i])) <= Rank(SortKey(e))})
         IN  SubSeq(front, 1, p) \o <<e>> \o SubSeq(front, p + 1, Len(front))

\* event.get(k): the value of the field, None when the event has none.
Get(e, k) == IF HasKey(e.items, k) THEN ValueOf(e.items, k) ELSE NoneVal

\* csv.writer writes None as the empty field.
CsvField(v) == IF v = NoneVal THEN "" ELSE v

\* The row of lines 187-192.
Row(e) == <<CsvField(Get(e, "timestamp")), CsvField(Get(e, "module")),
            CsvField(Get(e, "event")), CsvField(Get(e, "data"))>>

Header == <<"UTC Timestamp", "Plugin", "Event", "Description">>

\* The mutation of save_timeline that opens the target with mode "w+".
OpenAppendTruncates(old) == <<>>

\* io.open(timeline_path, "a+"): the content of the target stays and what is
\* written goes behind it.
OpenAppend(old) == old

\* The rows one call writes when nothing fails: the header, then the events.
RowsOf(tl) ==
    LET sorted == SortedByTimestamp(tl)
    IN  <<Header>> \o [i \in 1..Len(sorted) |-> Row(sorted[i])]

\* save_timeline: the outcomes of one call on a target holding old. The
\* target cannot be opened; or the header is written and the sort raises
\* KeyError on an event without timestamp field; or a write fails after some
\* rows; or every row is written.
save_timeline(tl, old) ==
    IF \E i \in 1..Len(tl) : ~ HasKey(tl[i].items, "timestamp")
    THEN {[raises |-> "OSError", file |-> old],
          [raises |-> "OSError", file |-> OpenAppend(old)],
          [raises |-> "KeyError", file |-> OpenAppend(old) \o <<Header>>]}
    ELSE {[raises |-> "OSError", file |-> old]}
         \cup {[raises |-> "OSError",
                file |-> OpenAppend(old) \o SubSeq(RowsOf(tl), 1, k)] :
                   k \in 0..Len(tl)}
         \cup {[raises |-> "ok", file |-> OpenAppend(old) \o RowsOf(tl)]}

\* One call of save_timeline on the target.
SaveTimeline(tl) ==
    /\ \E out \in save_timeline(tl, st.file) :
          st' = [file |-> out.file, calls |-> st.calls + 1, last |-> tl,
                 wrote |-> SubSeq(out.file, Len(st.file) + 1, Len(out.file)),
                 raises |-> out.raises]
    /\ UNCHANGED <<rl, sg, tt>>
    /\ UNCHANGED dedupeVars
    /\ UNCHANGED moduleVars

\* A single call on an empty target.
NextRender ==
    \E tl \in SeqsUpTo(SaveEntries, MaxRows) : st.calls = 0 /\ SaveTimeline(tl)

SpecRender == Init /\ [][NextRender]_vars

\* Call after call on the same target.
NextAppend ==
    \E tl \in SeqsUpTo(AppendEntries, MaxAppendRows) :
        st.calls < MaxSaves /\ SaveTimeline(tl)

SpecAppend == Init /\ [][NextAppend]_vars

\* ------------------------------------------------------------------ claims

\* run_module has ended for module m: it returned or an exception left it.
Ended(m) == pc[m] \in {"stopped", "finished", "raised"}

\* run_module invoked the module operation op on m.
Invoked(m, op) == \E i \in 1..Len(calls[m]) : calls[m][i] = op

\* How often run_module invoked op on m.
TimesInvoked(m, op) == Cardinality({i \in 1..Len(calls[m]) : calls[m][i] = op})

\* What module m's run() signalled ("-": not invoked yet).
RunSignal(m) == IF Len(signals[m]) >= 1 THEN signals[m][1] ELSE "-"

CheckSignal(m) == IF Len(signals[m]) >= 2 THEN signals[m][2] ELSE "-"

TimelineSignal(m) == IF Len(signals[m]) >= 3 THEN signals[m][3] ELSE "-"

NoFilesWritten(m) == files[m] = [results |-> NoFile, detected |-> NoFile]

\* save_to_json wrote file f of module m: it opened the file for writing to
\* dump the sequence into it.
Wrote(m, f) == \E i \in 1..Len(io[m]) : io[m][i] = f

NoticeLogged(m) ==
    \E i \in 1..Len(log[m]) : log[m][i] = <<"info", "no detections">>

\* C1: run_module never lets a failure escape to its caller, whatever the
\* stage that raised it, so that a batch always goes on to the next module.
C1_NoFailureEscapes == \A m \in Modules : ret[m] # "raised"

\* C2: if run() fails in any way, none of check_indicators, to_timeline and
\* save_to_json is invoked in that run_module call and no file is opened or
\* written.
C2_FailedExtractionStops ==
    \A m \in Modules :
        RunSignal(m) \notin {"-", "ok"} =>
            /\ calls[m] = <<"run">>
            /\ io[m] = <<>>
            /\ NoFilesWritten(m)

\* C2 witness: extraction failed on a corrupted source for a module that has
\* an output folder and results to store.
C2_Witness ==
    /\ RunSignal(1) = "DatabaseCorruptedError"
    /\ pc[1] = "stopped"
    /\ output_folder[1]
    /\ Results(1) # <<>>

\* C3: a run whose extraction signalled a corrupted source or an unclassified
\* failure hands its caller an outcome that differs from that of a run that
\* succeeded and from that of a run that ended on a non-fatal signal.
C3_FatalSurfaced ==
    \A a, b \in Modules :
        /\ Ended(a) /\ Ended(b)
        /\ RunSignal(a) \in {"DatabaseCorruptedError", "Exception"}
        /\ \/ pc[b] = "finished"
           \/ RunSignal(b) \in {"DatabaseNotFoundError", "InsufficientPrivileges",
                                "NotImplementedError"}
        => ret[a] # ret[b]

\* C4 as stated: if run() signals DatabaseNotFoundError, no results file is
\* written and the pipeline reaches the persistence stage with results and
\* detected empty.
C4_NotFoundReachesPersisted ==
    \A m \in Modules :
        (Ended(m) /\ RunSignal(m) = "DatabaseNotFoundError") =>
            /\ files[m].results = NoFile
            /\ Invoked(m, "save_to_json")
            /\ Results(m) = <<>>
            /\ detected[m] = <<>>

\* C4 amended: if run() signals DatabaseNotFoundError, no results file and no
\* detected file is written, detected is empty, and the pipeline stops right
\* after the extraction: save_to_json is not invoked and run_module returns
\* normally, whatever results holds.
C4_NotFoundStops ==
    \A m \in Modules :
        RunSignal(m) = "DatabaseNotFoundError" =>
            /\ NoFilesWritten(m)
            /\ detected[m] = <<>>
            /\ calls[m] = <<"run">>
            /\ pc[m] = "stopped"
            /\ ret[m] = "None"

\* C4 witness: the source was not found by a module that holds results and
\* has an output folder.
C4_Witness ==
    /\ RunSignal(1) = "DatabaseNotFoundError"
    /\ pc[1] = "stopped"
    /\ Results(1) # <<>>
    /\ output_folder[1]

\* C5: whatever fails while save_to_json opens or writes a file, the write
\* of the detected file is still attempted when detected is non-empty, and
\* save_to_json, hence run_module, returns normally.
C5_PersistFailuresContained ==
    \A m \in Modules :
        ( /\ Ended(m) /\ Invoked(m, "save_to_json")
          /\ output_folder[m] /\ detected[m] # <<>> ) =>
            /\ Wrote(m, "detected")
            /\ ret[m] = "None"

\* The run of m has got past check_indicators, which returned normally with
\* indicators bound and nothing detected.
NoticeDue(m) == CheckSignal(m) = "ok" /\ indicators[m] /\ detected[m] = <<>>

C7_NotImplementedSkipsStage ==
    \A m \in Modules :
        /\ TimesInvoked(m, "save_to_json") <= 1
        /\ ( /\ Ended(m)
             /\ RunSignal(m) = "ok"
             /\ CheckSignal(m) \in {"ok", "NotImplementedError"}
             /\ TimelineSignal(m) \in {"ok", "NotImplementedError"} )
           => calls[m] = <<"run", "check_indicators", "to_timeline", "save_to_json">>

\* C7 witness: check_indicators and to_timeline both signalled
\* NotImplementedError and the run has ended.
C7_Witness ==
    /\ Ended(1)
    /\ CheckSignal(1) = "NotImplementedError"
    /\ TimelineSignal(1) = "NotImplementedError"
    /\ Results(1) # <<>>

\* C8: when save_to_json runs with an output folder, it writes the results
\* file if and only if results is non-empty and the detected file if and
\* only if detected is non-empty.
C8_WrittenIffNonEmpty ==
    \A m \in Modules :
        (Ended(m) /\ Invoked(m, "save_to_json") /\ output_folder[m]) =>
            /\ Wrote(m, "results") <=> Results(m) # <<>>
            /\ Wrote(m, "detected") <=> detected[m] # <<>>

\* C9: the sequences of a module instance are its own: a step of another
\* instance, such as adding an entry to its results, changes none of them.
C9_NoSharedSequences ==
    [][\A m \in Modules :
          (pc[m] # "none" /\ pc'[m] = pc[m]) =>
              /\ Results(m)' = Results(m)
              /\ detected'[m] = detected[m]
              /\ timeline'[m] = timeline[m]
              /\ timeline_detected'[m] = timeline_detected[m]]_vars

\* a and b hold the same entries, each as often, whatever the order
SameEntries(a, b) ==
    /\ Len(a) = Len(b)
    /\ \A i \in 1..Len(a) :
          Cardinality({j \in 1..Len(a) : PyEq(a[j], a[i])})
              = Cardinality({j \in 1..Len(b) : PyEq(b[j], a[i])})

\* C10 as stated: timeline_deduplicate is idempotent as a function on
\* sequences, dedupe(dedupe(T)) == dedupe(T) as lists, and never grows its
\* input.
C10_IdempotentAsLists ==
    dStep = 2 =>
        /\ Len(dOnce) = Len(dTwice)
        /\ \A i \in 1..Len(dOnce) : PyEq(dTwice[i], dOnce[i])
        /\ Len(dOnce) <= Len(dIn)

\* C10 amended: timeline_deduplicate is idempotent up to the order of the
\* entries: dedupe(dedupe(T)) holds exactly the entries of dedupe(T), each
\* once, in an order that may differ, and len(dedupe(T)) <= len(T).
C10_IdempotentUpToOrder ==
    dStep = 2 =>
        /\ SameEntries(dTwice, dOnce)
        /\ Len(dOnce) <= Len(dIn)

\* C10 witness: an input with a repeated entry and two distinct ones has been
\* de-duplicated twice, and the second pass returned another order.
C10_Witness ==
    /\ dStep = 2
    /\ Len(dIn) = 3
    /\ Len(dOnce) = 2
    /\ ~ PyEq(dTwice[1], dOnce[1])

\* How many entries of the list a are structurally equal to e.
CountEqual(a, e) == Cardinality({j \in 1..Len(a) : PyEq(a[j], e)})

\* C11: timeline_deduplicate keeps exactly one representative of every class
\* of structurally equal entries, whatever the order of their fields: every
\* input entry has exactly one equal entry in the output, every output entry
\* equals some input entry, and entries that differ in a field both survive.
C11_OneRepresentative ==
    dStep >= 1 =>
        /\ \A i \in 1..Len(dIn) : CountEqual(dOnce, dIn[i]) = 1
        /\ \A j \in 1..Len(dOnce) : CountEqual(dIn, dOnce[j]) >= 1
        /\ \A i, k \in 1..Len(dIn) :
              (\E j \in 1..Len(dOnce) : PyEq(dOnce[j], dIn[i]) /\ PyEq(dOnce[j], dIn[k]))
                  <=> PyEq(dIn[i], dIn[k])

\* C11 witness: an entry, the same entry with its fields in the other order
\* and an entry with another timestamp were de-duplicated to two entries.
C11_Witness ==
    /\ dStep >= 1
    /\ dIn = <<EntryA, EntryB, EntryA2>>
    /\ Len(dOnce) = 2

\* The rows of events save_timeline wrote in its last call, header left out.
EventRows == Tail(st.wrote)

\* C12: save_timeline renders one row per timeline entry, in ascending order
\* of timestamp, an entry whose timestamp is None ordered as the empty string
\* and so first; the rows are a permutation of the rows of the entries, and
\* timestamps 2023-01-02, None, 2023-01-01 come out as None, 2023-01-01,
\* 2023-01-02.
C12_RowsSortedByTimestamp ==
    st.calls = 1 =>
        /\ (\A i \in 1..Len(st.last) : HasKey(st.last[i].items, "timestamp"))
              => st.raises # "KeyError"
        /\ st.raises = "ok" =>
              /\ st.wrote[1] = Header
              /\ Len(EventRows) = Len(st.last)
              /\ \A i, j \in 1..Len(EventRows) :
                    i < j => Rank(EventRows[i][1]) <= Rank(EventRows[j][1])
              /\ \A i \in 1..Len(st.last) :
                    Cardinality({j \in 1..Len(EventRows) : EventRows[j] = Row(st.last[i])})
                      = Cardinality({j \in 1..Len(st.last) :
                                        Row(st.last[j]) = Row(st.last[i])})
              /\ st.last = <<EntryB, EntryN, EntryA>>
                    => EventRows = <<Row(EntryN), Row(EntryA), Row(EntryB)>>

\* C12 witness: the timeline with timestamps 2023-01-02, None, 2023-01-01 has
\* been rendered.
C12_Witness ==
    /\ st.calls = 1
    /\ st.raises = "ok"
    /\ st.last = <<EntryB, EntryN, EntryA>>
    /\ EventRows[1][1] = ""

\* C13: save_timeline only appends: what the target held before a call is an
\* unchanged prefix of what it holds after the call.
C13_AppendOnly ==
    [][/\ Len(st'.file) >= Len(st.file)
       /\ SubSeq(st'.file, 1, Len(st.file)) = st.file]_vars

\* C13 witness: two calls have written their rows to the target one behind
\* the other.
C13_Witness ==
    /\ st.calls = 2
    /\ st.raises = "ok"
    /\ st.file = <<Header, Row(EntryA), Header, Row(EntryA)>>

\* Two lists hold structurally equal entries at every position.
ListEq(a, b) == Len(a) = Len(b) /\ \A i \in 1..Len(a) : PyEq(a[i], b[i])

\* Every field value of every entry is one json encodes as itself.
JsonNative(list) ==
    \A i \in 1..Len(list) : \A j \in 1..Len(list[i].items) :
        list[i].items[j][2] # DatetimeVal

\* C14 as stated: for every results sequence, save_to_json followed by
\* from_json on the file yields a results sequence structurally equal to the
\* original.
C14_RoundTrip ==
    rl.step = "loaded" => (rl.raises = "ok" /\ ListEq(rl.out, rl.results))

\* C14 amended: for every non-empty results sequence whose field values json
\* encodes as themselves (strings, None), and whose file save_to_json wrote
\* to its end, from_json yields a results sequence structurally equal to the
\* original.
C14_RoundTripOfNativeResults ==
    ( /\ rl.step = "loaded"
      /\ rl.results # <<>>
      /\ JsonNative(rl.results)
      /\ rl.file.state = "complete" )
    => (rl.raises = "ok" /\ ListEq(rl.out, rl.results))

\* C14 witness: two entries, one with a None timestamp, one with its fields in
\* another order, were stored and loaded again.
C14_Witness ==
    /\ rl.step = "loaded"
    /\ rl.results = <<EntryN, EntryA2>>
    /\ rl.raises = "ok"
    /\ Len(rl.out) = 2

\* A capitalized segment starts at position i of the name: an uppercase
\* character, not the first, that a lowercase character follows or that a
\* lowercase character or digit precedes.
SegmentStart(name, i) ==
    /\ i > 1
    /\ name[i] \in UpperChars
    /\ \/ i < Len(name) /\ name[i + 1] \in LowerChars
       \/ name[i - 1] \in LowerChars \cup DigitChars

\* The name with a separator before each capitalized segment, lowercased.
RECURSIVE SeparatedFrom(_, _)
SeparatedFrom(name, i) ==
    IF i > Len(name) THEN <<>>
    ELSE (IF SegmentStart(name, i) THEN <<"_">> ELSE <<>>)
             \o <<ToLower(name[i])>> \o SeparatedFrom(name, i + 1)

\* C15: get_slug returns the override whenever one is set, whatever the type
\* name; otherwise the slug is the type name with a separator before each
\* capitalized segment, lowercased, and ContactList yields contact_list.
C15_SlugOverrideOrDerived ==
    sg.step = "called" =>
        /\ SlugSet(sg.slug) => sg.out = sg.slug
        /\ sg.slug = NoneVal => sg.out = SeparatedFrom(sg.name, 1)
        /\ (sg.slug = NoneVal /\ sg.name = ContactList) => sg.out = contact_list

\* C15 witness: the slug of a type named ContactList without an override was
\* derived.
C15_Witness ==
    /\ sg.step = "called"
    /\ sg.slug = NoneVal
    /\ sg.name = ContactList
    /\ sg.out = contact_list

\* The stages of run_module in the order of its statements.
StageOrder == <<"run", "check_indicators", "to_timeline", "save_to_json">>

StageIndex(op) == CHOOSE i \in 1..Len(StageOrder) : StageOrder[i] = op

\* C16: within one run_module call each of run, check_indicators, to_timeline
\* and save_to_json is invoked at most once, the invocations follow the order
\* run, check_indicators, to_timeline, save_to_json, and check_indicators is
\* invoked only after run has returned without a failure.
C16_StagesSequential ==
    /\ \A i, j \in 1..Len(calls[1]) :
          i < j => StageIndex(calls[1][i]) < StageIndex(calls[1][j])
    /\ Invoked(1, "check_indicators") =>
          (calls[1][1] = "run" /\ RunSignal(1) = "ok")

\* C16 witness: a run_module call that invoked all four stages and returned.
C16_Witness ==
    /\ pc[1] = "finished"
    /\ calls[1] = StageOrder
    /\ RunSignal(1) = "ok"

\* e is structurally equal to some entry of list.
In(e, list) == \E i \in 1..Len(list) : PyEq(list[i], e)

\* e is one of the records serialize() returns for some entry of list.
SerializationOf(kind, e, list) ==
    \E i \in 1..Len(list) : In(e, Serialize(kind, list[i]).records)

\* No two entries of list are structurally equal.
NoTwoEqual(list) == \A i, j \in 1..Len(list) : PyEq(list[i], list[j]) => i = j

\* Every entry of list is a single record that comes from serializing an
\* entry of source or was in old, and every record serialize() returns for an
\* entry of source is an entry of list.
MadeFrom(kind, list, source, old) ==
    /\ \A i \in 1..Len(list) :
          /\ list[i].kind = "dict"
          /\ SerializationOf(kind, list[i], source) \/ In(list[i], old)
    /\ \A i \in 1..Len(source) :
          \A k \in 1..Len(Serialize(kind, source[i]).records) :
              In(Serialize(kind, source[i]).records[k], list)

\* C17: after to_timeline completes, every entry of timeline is a
\* serialization of an entry of results or was in timeline before, every
\* entry of timeline_detected is a serialization of an entry of detected or
\* was in timeline_detected before, list-valued serializations are flattened
\* into their records, empty serializations contribute nothing, and neither
\* sequence holds two structurally equal entries.
C17_TimelinesSeparateAndDeduplicated ==
    (tt.calls >= 1 /\ tt.raises = "ok") =>
        /\ MadeFrom(tt.kind, tt.timeline, tt.results, tt.before.timeline)
        /\ MadeFrom(tt.kind, tt.timeline_detected, tt.detected,
                    tt.before.timeline_detected)
        /\ NoTwoEqual(tt.timeline)
        /\ NoTwoEqual(tt.timeline_detected)

\* C17 witness: a module whose serialize() returns a list for every entry has
\* two results, one of them flagged, and to_timeline completed.
C17_Witness ==
    /\ tt.calls = 1
    /\ tt.raises = "ok"
    /\ tt.kind = "list"
    /\ tt.results = <<EntryA, EntryN>>
    /\ tt.detected = <<EntryN>>
    /\ Len(tt.timeline) = 2
    /\ Len(tt.timeline_detected) = 1

\* a and b hold the same set of entries.
SameSet(a, b) ==
    /\ \A i \in 1..Len(a) : In(a[i], b)
    /\ \A i \in 1..Len(b) : In(b[i], a)

\* C19: with results and detected unchanged and a deterministic serialize,
\* after any number of calls of to_timeline the two timelines hold the same
\* set of entries as after the first call, and a call that completed leaves
\* no entry twice.
C19_RepeatKeepsEntries ==
    tt.calls >= 1 =>
        /\ SameSet(tt.timeline, tt.first.timeline)
        /\ SameSet(tt.timeline_detected, tt.first.timeline_detected)
        /\ tt.raises = "ok" =>
              (NoTwoEqual(tt.timeline) /\ NoTwoEqual(tt.timeline_detected))

\* C19 witness: to_timeline completed three times on a module with two equal
\* results, both flagged, and each timeline holds one entry.
C19_Witness ==
    /\ tt.calls = 3
    /\ tt.raises = "ok"
    /\ tt.results = <<EntryA, EntryA>>
    /\ tt.detected = <<EntryA, EntryA>>
    /\ Len(tt.timeline) = 1
    /\ Len(tt.timeline_detected) = 1

\* C18: detected changes only in the step that invokes check_indicators;
\* construction (also by from_json), load_indicators, to_timeline and
\* save_to_json leave it as it is, and to_timeline and save_to_json leave
\* results as they are.
C18_DetectedOnlyByCheckIndicators ==
    [][ /\ detected'[1] # detected[1] =>
              (pc[1] = "detect" /\ calls'[1] = Append(calls[1], "check_indicators"))
        /\ pc[1] \in {"timeline", "persist"} =>
              (defaultResults' = defaultResults /\ ownResults' = ownResults) ]_vars

\* C18 witness: a module with indicators loaded and an entry flagged went
\* through to_timeline and save_to_json.
C18_Witness ==
    /\ pc[1] = "finished"
    /\ indicators[1]
    /\ detected[1] # <<>>
    /\ Invoked(1, "to_timeline")
    /\ Invoked(1, "save_to_json")

\* C20: every run_module call that has ended is in one of the two terminal
\* states, stopped after a failed extraction or finished after the
\* persistence step.
C20_EndsStoppedOrFinished ==
    Ended(1) =>
        \/ pc[1] = "stopped" /\ RunSignal(1) \notin {"-", "ok"}
        \/ pc[1] = "finished" /\ Invoked(1, "save_to_json")

=============================================================================
